---- MODULE Spec2Model ----
(***************************************************************************)
(* Model of the XIM client wrapper in src/src/lib.rs (ImeClient).          *)
(*                                                                         *)
(* The state is the fields of ImeClient, the requests the client has       *)
(* handed to the protocol engine (xcb-imdkit) that have not completed yet, *)
(* and a record of what the last step did: which entry point ran (op),     *)
(* what it returned (ret) and which engine functions and user handlers it  *)
(* called (out).  One action per public method and per extern "C"          *)
(* callback.  The engine is the environment: it completes or drops the     *)
(* requests it was given, and delivers notifications, in any order.        *)
(***************************************************************************)
EXTENDS Integers, Sequences, FiniteSets, TLC

(* ---------------------------------------------------------------- bounds *)
MaxIc == 2         \* the server hands out context ids 1..MaxIc, each once
MaxOpen == 1       \* outstanding xcb_xim_open requests the engine keeps
MaxCreate == 2     \* outstanding xcb_xim_create_ic requests the engine keeps
MaxAcks == 3       \* outstanding xcb_xim_set_ic_values requests the engine keeps
MaxDeferred == 2   \* deferred update_pos calls counted per in-flight update
MaxLines == 2      \* diagnostic lines each logging thread passes to rust_log

(* ------------------------------------------------------------- constants *)
XCB_KEY_PRESS == 2
XCB_KEY_RELEASE == 3
PREEDIT_CALLBACKS == 2
DEFAULT == 0

NoIc == 0                       \* ImeClient.ic == None
Null == <<-1>>                  \* a null pointer from xcb_compound_text_to_utf8
Windows == {7, 8}               \* window ids passed to update_pos
Spots == {<<10, 20>>, <<15, 25>>}  \* (x, y) passed to update_pos
ResponseTypes == {2, 3, 4, 130} \* key press, key release, button press, sent key press
Texts == {<<97>>}               \* byte strings the server delivers
ConvResults == {Null, <<98>>}   \* what xcb_compound_text_to_utf8 can return
Encodings == {"UTF8_STRING", "COMPOUND_TEXT"}
NoLogger == "None"              \* LOGGER holds None
Torn == "torn"                  \* LOGGER while a replacing write is half done
Installs == <<"f", "g">>        \* the handlers passed to set_logger, in order
Installer == "app"              \* the thread that calls set_logger
Loggers == {"engine1", "engine2"}  \* the threads the engine logs from
Threads == {Installer} \cup Loggers

VARIABLES
  ic,                        \* Option<xcb_xic_t>: NoIc or a context id
  callbacks,                 \* Callbacks: which of the five slots hold a handler
  input_style,               \* InputStyle bits
  pos_cur,                   \* ImePos
  pos_req,                   \* ImePos
  is_processing_pos_update,  \* bool
  pos_update_queued,         \* bool
  opens,                     \* xcb_xim_open requests not yet completed
  creates,                   \* xcb_xim_create_ic requests not yet completed
  acks,                      \* contexts of the xcb_xim_set_ic_values requests not yet completed, oldest first
  next_ic,                   \* the next context id the server hands out
  op,                        \* the entry point the last step ran (a method with its arguments)
  ret,                       \* what it returned: <<>> for none, <<b>> for a bool
  out,                       \* the engine functions and user handlers it called, in order
  last_args,                 \* history: the arguments of the most recent update_pos call
  last_sent,                 \* history: the placement carried by the most recent create_ic / set_ic_values
  deferred,                  \* history: update_pos calls made, since the last placement send, with a context open and an update in flight
  gen,                       \* history, kept by SpecLive only: parity of the number of update_pos calls
  coalesced,                 \* history: the deferred calls the last placement send stood for, kept until a step other than its acknowledgment
  last_ic,                   \* history: the context the most recent placement went to (NoIc while that context is being created)
  orphaned,                  \* history: a disconnect cleared the context while its placement send was unacknowledged, and sends have been outstanding ever since
  alive,                     \* the ImeClient has not been dropped
  LOGGER,                    \* the Option inside the static Mutex: NoLogger or a handler
  locked,                    \* the Mutex of LOGGER is held
  pc,                        \* per thread: the calls it has finished and where it is in the current one
  delivered                  \* history: per logging thread and line, the handler that was called with it

client == <<ic, callbacks, input_style, pos_cur, pos_req,
            is_processing_pos_update, pos_update_queued>>
engine == <<opens, creates, acks, next_ic>>
trace == <<op, ret, out>>
history == <<last_args, last_sent, deferred, coalesced, last_ic, orphaned>>
logging == <<LOGGER, locked, pc, delivered>>
vars == <<client, engine, trace, history, gen, alive, logging>>

ImePos(win, x, y) == [win |-> win, x |-> x, y |-> y]
NoPlacement == ImePos(-1, -1, -1)   \* last_sent before anything was sent

Min(a, b) == IF a < b THEN a ELSE b

(* ------------------------------------------------- calls a step can make *)
xcb_xim_open == [call |-> "xcb_xim_open"]
xcb_xim_create_ic(style, pos) ==
  [call |-> "xcb_xim_create_ic", style |-> style, win |-> pos.win, x |-> pos.x, y |-> pos.y]
xcb_xim_set_ic_values(c, wattr, pos) ==
  [call |-> "xcb_xim_set_ic_values", ic |-> c, wattr |-> wattr,
   win |-> pos.win, x |-> pos.x, y |-> pos.y]
xcb_xim_set_ic_focus(c) == [call |-> "xcb_xim_set_ic_focus", ic |-> c]
xcb_xim_forward_event(c, rt) == [call |-> "xcb_xim_forward_event", ic |-> c, response_type |-> rt]
xcb_xim_destroy_ic(c) == [call |-> "xcb_xim_destroy_ic", ic |-> c]
xcb_xim_close == [call |-> "xcb_xim_close"]
xcb_xim_destroy == [call |-> "xcb_xim_destroy"]
xcb_compound_text_to_utf8(str) == [call |-> "xcb_compound_text_to_utf8", input |-> str]
Decode(enc, str) == [call |-> "xim_encoding_to_utf8", encoding |-> enc, input |-> str]
Handler(slot, win, data) == [call |-> slot, win |-> win, data |-> data]

Calls(o, name) == SelectSeq(o, LAMBDA e : e.call = name)
Sends(o) == Calls(o, "xcb_xim_set_ic_values")
Placed(o) == SelectSeq(o, LAMBDA e : e.call \in {"xcb_xim_create_ic", "xcb_xim_set_ic_values"})

\* The history variables, read off what the step did (op', out').
Record ==
  /\ last_args' = IF op'[1] = "update_pos" THEN ImePos(op'[2], op'[3], op'[4]) ELSE last_args
  /\ last_sent' = IF Placed(out') # <<>>
                    THEN LET e == Placed(out')[Len(Placed(out'))] IN ImePos(e.win, e.x, e.y)
                    ELSE last_sent
  /\ coalesced' = IF Sends(out') # <<>>
                    THEN deferred
                    ELSE IF op'[1] = "update_pos_callback" THEN coalesced ELSE 0
  /\ deferred' = IF Sends(out') # <<>>
                   THEN 0
                   ELSE IF op'[1] = "update_pos" /\ ic # NoIc /\ acks # <<>>
                          THEN Min(deferred + 1, MaxDeferred)
                          ELSE deferred
  /\ last_ic' = IF Sends(out') # <<>>
                  THEN Sends(out')[Len(Sends(out'))].ic
                  ELSE IF Calls(out', "xcb_xim_create_ic") # <<>>
                         THEN NoIc
                         ELSE IF op'[1] = "create_ic_callback" /\ last_ic = NoIc
                                THEN op'[2]
                                ELSE last_ic
  /\ orphaned' = IF Sends(out') = <<>> /\ Len(acks) <= (IF op'[1] = "update_pos_callback" THEN 1 ELSE 0)
                   THEN FALSE
                   ELSE IF op'[1] = "disconnected_callback" /\ ic # NoIc /\ Head(acks) = ic
                          THEN TRUE
                          ELSE orphaned

(* ------------------------------------------------------------------ Init *)
\* ImeClient::unsafe_new: no context, no handlers, both placements zero, both
\* flags false.  The input style is the caller's.
Init ==
  /\ ic = NoIc
  /\ callbacks = [commit_string |-> FALSE, forward_event |-> FALSE,
                  preedit_start |-> FALSE, preedit_draw |-> FALSE, preedit_done |-> FALSE]
  /\ input_style \in {DEFAULT, PREEDIT_CALLBACKS}
  /\ pos_cur = ImePos(0, 0, 0)
  /\ pos_req = ImePos(0, 0, 0)
  /\ is_processing_pos_update = FALSE
  /\ pos_update_queued = FALSE
  /\ opens = 0
  /\ creates = 0
  /\ acks = <<>>
  /\ next_ic = 1
  /\ op = <<"new">>
  /\ ret = <<>>
  /\ out = <<>>
  /\ last_args = ImePos(0, 0, 0)
  /\ last_sent = NoPlacement
  /\ deferred = 0
  /\ gen = 0
  /\ coalesced = 0
  /\ last_ic = NoIc
  /\ orphaned = FALSE
  /\ alive = TRUE
  /\ LOGGER = NoLogger
  /\ locked = FALSE
  /\ pc = [t \in Threads |-> [done |-> 0, at |-> "call"]]
  /\ delivered = [t \in Loggers |-> [k \in 1..MaxLines |-> NoLogger]]

(* ------------------------------------------------ Input Context Lifecycle *)
\* Mutant of try_open_ic: opens only for a client that never had a context.
try_open_ic_first_only ==
  IF ic # NoIc \/ next_ic > 1
    THEN /\ out' = <<>>
         /\ UNCHANGED opens
    ELSE /\ out' = <<xcb_xim_open>>
         /\ opens' = Min(opens + 1, MaxOpen)

\* ImeClient::try_open_ic: returns at once when a context exists, otherwise
\* calls xcb_xim_open.
try_open_ic ==
  IF ic # NoIc
    THEN /\ out' = <<>>
         /\ UNCHANGED opens
    ELSE /\ out' = <<xcb_xim_open>>
         /\ opens' = Min(opens + 1, MaxOpen)

\* Mutant of open_callback: the current placement is not updated.
open_callback_keeps_current ==
  /\ opens > 0
  /\ opens' = opens - 1
  /\ creates' = Min(creates + 1, MaxCreate)
  /\ out' = <<xcb_xim_create_ic(input_style, pos_req)>>
  /\ op' = <<"open_callback">>
  /\ ret' = <<>>
  /\ Record
  /\ UNCHANGED <<ic, callbacks, input_style, pos_cur, pos_req, is_processing_pos_update,
                 pos_update_queued, acks, next_ic>>

\* open_callback: the engine reports the connection open; the client asks for
\* a context with the requested placement and copies it to the current one.
open_callback ==
  /\ opens > 0
  /\ opens' = opens - 1
  /\ creates' = Min(creates + 1, MaxCreate)
  /\ out' = <<xcb_xim_create_ic(input_style, pos_req)>>
  /\ pos_cur' = pos_req
  /\ op' = <<"open_callback">>
  /\ ret' = <<>>
  /\ Record
  /\ UNCHANGED <<ic, callbacks, input_style, pos_req, is_processing_pos_update,
                 pos_update_queued, acks, next_ic>>

\* The engine gives up an open request without calling back.
open_failed ==
  /\ opens > 0
  /\ opens' = opens - 1
  /\ op' = <<"open_failed">>
  /\ ret' = <<>>
  /\ out' = <<>>
  /\ Record
  /\ UNCHANGED <<client, creates, acks, next_ic>>

\* create_ic_callback: the server created context new_ic.
create_ic_callback(new_ic) ==
  /\ creates > 0
  /\ new_ic = next_ic
  /\ creates' = creates - 1
  /\ next_ic' = next_ic + 1
  /\ ic' = new_ic
  /\ out' = <<xcb_xim_set_ic_focus(new_ic)>>
  /\ op' = <<"create_ic_callback", new_ic>>
  /\ ret' = <<>>
  /\ Record
  /\ UNCHANGED <<callbacks, input_style, pos_cur, pos_req, is_processing_pos_update,
                 pos_update_queued, opens, acks>>

\* The engine gives up a context-creation request without calling back.
create_ic_failed ==
  /\ creates > 0
  /\ creates' = creates - 1
  /\ op' = <<"create_ic_failed">>
  /\ ret' = <<>>
  /\ out' = <<>>
  /\ Record
  /\ UNCHANGED <<client, opens, acks, next_ic>>

\* Mutant of disconnected_callback: also resets the placement bookkeeping.
disconnected_callback_reset ==
  /\ ic' = NoIc
  /\ is_processing_pos_update' = FALSE
  /\ pos_update_queued' = FALSE
  /\ op' = <<"disconnected_callback">>
  /\ ret' = <<>>
  /\ out' = <<>>
  /\ Record
  /\ UNCHANGED <<callbacks, input_style, pos_cur, pos_req, engine>>

\* disconnected_callback: ime.ic.take().
disconnected_callback ==
  /\ ic' = NoIc
  /\ op' = <<"disconnected_callback">>
  /\ ret' = <<>>
  /\ out' = <<>>
  /\ Record
  /\ UNCHANGED <<callbacks, input_style, pos_cur, pos_req, is_processing_pos_update,
                 pos_update_queued, engine>>

(* -------------------------------------------- Position Update Coordinator *)
\* Mutant of window_changed: compares the whole placement, not the window id.
window_changed_any_field(req, cur) == req # cur

\* The window test of send_pos_update (pos_req.win != pos_cur.win).
window_changed(req, cur) == req.win # cur.win

\* ImeClient::send_pos_update(ic) with self.pos_req = req, the engine holding
\* the requests in queue: marks the update in flight, issues
\* xcb_xim_set_ic_values for context c and copies req to pos_cur.
send_pos_update(c, req, queue) ==
  /\ is_processing_pos_update' = TRUE
  /\ out' = <<xcb_xim_set_ic_values(c, window_changed(req, pos_cur), req)>>
  /\ acks' = IF Len(queue) < MaxAcks THEN Append(queue, c) ELSE queue
  /\ pos_cur' = req

\* Mutant of update_pos: sends although an update is in flight.
update_pos_always_send(win, x, y) ==
  /\ pos_req' = ImePos(win, x, y)
  /\ IF ic # NoIc
       THEN /\ send_pos_update(ic, pos_req', acks)
            /\ ret' = <<TRUE>>
            /\ UNCHANGED <<pos_update_queued, opens>>
       ELSE /\ try_open_ic
            /\ ret' = <<FALSE>>
            /\ UNCHANGED <<is_processing_pos_update, pos_update_queued, pos_cur, acks>>
  /\ op' = <<"update_pos", win, x, y>>
  /\ Record
  /\ UNCHANGED <<ic, callbacks, input_style, creates, next_ic>>

\* Mutant of update_pos: reports a queued request as sent.
update_pos_true_when_queued(win, x, y) ==
  /\ pos_req' = ImePos(win, x, y)
  /\ IF ic # NoIc
       THEN IF is_processing_pos_update
              THEN /\ pos_update_queued' = TRUE
                   /\ ret' = <<TRUE>>
                   /\ out' = <<>>
                   /\ UNCHANGED <<is_processing_pos_update, pos_cur, acks, opens>>
              ELSE /\ send_pos_update(ic, pos_req', acks)
                   /\ ret' = <<TRUE>>
                   /\ UNCHANGED <<pos_update_queued, opens>>
       ELSE /\ try_open_ic
            /\ ret' = <<FALSE>>
            /\ UNCHANGED <<is_processing_pos_update, pos_update_queued, pos_cur, acks>>
  /\ op' = <<"update_pos", win, x, y>>
  /\ Record
  /\ UNCHANGED <<ic, callbacks, input_style, creates, next_ic>>

\* Mutant of update_pos: a request made without a context is marked pending.
update_pos_queue_without_context(win, x, y) ==
  /\ pos_req' = ImePos(win, x, y)
  /\ IF ic # NoIc
       THEN IF is_processing_pos_update
              THEN /\ pos_update_queued' = TRUE
                   /\ ret' = <<FALSE>>
                   /\ out' = <<>>
                   /\ UNCHANGED <<is_processing_pos_update, pos_cur, acks, opens>>
              ELSE /\ send_pos_update(ic, pos_req', acks)
                   /\ ret' = <<TRUE>>
                   /\ UNCHANGED <<pos_update_queued, opens>>
       ELSE /\ try_open_ic
            /\ pos_update_queued' = TRUE
            /\ ret' = <<FALSE>>
            /\ UNCHANGED <<is_processing_pos_update, pos_cur, acks>>
  /\ op' = <<"update_pos", win, x, y>>
  /\ Record
  /\ UNCHANGED <<ic, callbacks, input_style, creates, next_ic>>

\* ImeClient::update_pos(win, x, y).
update_pos(win, x, y) ==
  /\ pos_req' = ImePos(win, x, y)
  /\ IF ic # NoIc
       THEN IF is_processing_pos_update
              THEN /\ pos_update_queued' = TRUE
                   /\ ret' = <<FALSE>>
                   /\ out' = <<>>
                   /\ UNCHANGED <<is_processing_pos_update, pos_cur, acks, opens>>
              ELSE /\ send_pos_update(ic, pos_req', acks)
                   /\ ret' = <<TRUE>>
                   /\ UNCHANGED <<pos_update_queued, opens>>
       ELSE /\ try_open_ic
            /\ ret' = <<FALSE>>
            /\ UNCHANGED <<is_processing_pos_update, pos_update_queued, pos_cur, acks>>
  /\ op' = <<"update_pos", win, x, y>>
  /\ Record
  /\ UNCHANGED <<ic, callbacks, input_style, creates, next_ic>>

\* Mutant of update_pos_callback: the queued send repeats the placement sent
\* last (pos_cur) instead of the requested one.
update_pos_callback_stale(c) ==
  /\ acks # <<>>
  /\ c = Head(acks)
  /\ IF pos_update_queued
       THEN /\ pos_update_queued' = FALSE
            /\ send_pos_update(c, pos_cur, Tail(acks))
       ELSE /\ is_processing_pos_update' = FALSE
            /\ acks' = Tail(acks)
            /\ out' = <<>>
            /\ UNCHANGED <<pos_update_queued, pos_cur>>
  /\ op' = <<"update_pos_callback", c>>
  /\ ret' = <<>>
  /\ Record
  /\ UNCHANGED <<ic, callbacks, input_style, pos_req, opens, creates, next_ic>>

\* Mutant of update_pos_callback: clears both flags and sends nothing.
update_pos_callback_drop(c) ==
  /\ acks # <<>>
  /\ c = Head(acks)
  /\ pos_update_queued' = FALSE
  /\ is_processing_pos_update' = FALSE
  /\ acks' = Tail(acks)
  /\ out' = <<>>
  /\ op' = <<"update_pos_callback", c>>
  /\ ret' = <<>>
  /\ Record
  /\ UNCHANGED <<ic, callbacks, input_style, pos_cur, pos_req, opens, creates, next_ic>>

\* update_pos_callback(ic): the engine completes the oldest outstanding
\* xcb_xim_set_ic_values request, which was issued for context c.
update_pos_callback(c) ==
  /\ acks # <<>>
  /\ c = Head(acks)
  /\ IF pos_update_queued
       THEN /\ pos_update_queued' = FALSE
            /\ send_pos_update(c, pos_req, Tail(acks))
       ELSE /\ is_processing_pos_update' = FALSE
            /\ acks' = Tail(acks)
            /\ out' = <<>>
            /\ UNCHANGED <<pos_update_queued, pos_cur>>
  /\ op' = <<"update_pos_callback", c>>
  /\ ret' = <<>>
  /\ Record
  /\ UNCHANGED <<ic, callbacks, input_style, pos_req, opens, creates, next_ic>>

(* --------------------------------------------------------- Event Dispatcher *)
\* Mutant of mask: the sent-event bit is not cleared.
mask_keeps_sent_bit(response_type) == response_type

\* (*raw).response_type & !0x80 on a u8.
mask(response_type) == response_type % 128

\* Mutant of process_event: a key event is reported handled although no
\* context exists.
process_event_handled_without_ic(response_type, filtered) ==
  /\ IF ~filtered /\ mask(response_type) \in {XCB_KEY_PRESS, XCB_KEY_RELEASE}
       THEN IF ic # NoIc
              THEN /\ out' = <<xcb_xim_forward_event(ic, response_type)>>
                   /\ ret' = <<TRUE>>
                   /\ UNCHANGED opens
              ELSE /\ try_open_ic
                   /\ ret' = <<TRUE>>
       ELSE /\ out' = <<>>
            /\ ret' = <<FALSE>>
            /\ UNCHANGED opens
  /\ op' = <<"process_event", response_type, filtered>>
  /\ Record
  /\ UNCHANGED <<client, creates, acks, next_ic>>

\* ImeClient::process_event(event): response_type is the event's, filtered is
\* what xcb_xim_filter_event returned for it.
process_event(response_type, filtered) ==
  /\ IF ~filtered /\ mask(response_type) \in {XCB_KEY_PRESS, XCB_KEY_RELEASE}
       THEN IF ic # NoIc
              THEN /\ out' = <<xcb_xim_forward_event(ic, response_type)>>
                   /\ ret' = <<TRUE>>
                   /\ UNCHANGED opens
              ELSE /\ try_open_ic
                   /\ ret' = <<FALSE>>
       ELSE /\ out' = <<>>
            /\ ret' = <<FALSE>>
            /\ UNCHANGED opens
  /\ op' = <<"process_event", response_type, filtered>>
  /\ Record
  /\ UNCHANGED <<client, creates, acks, next_ic>>

(* ----------------------------------------------------------- Encoding Bridge *)
\* Mutant of xim_encoding_to_utf8: a failed conversion is handed on as it is.
xim_encoding_to_utf8_null(enc, xim_str, conv) ==
  IF enc = "UTF8_STRING"
    THEN xim_str
    ELSE IF enc = "COMPOUND_TEXT"
           THEN conv
           ELSE <<>>

\* xim_encoding_to_utf8(im, xim_str, length): enc is what xcb_xim_get_encoding
\* returns, conv what xcb_compound_text_to_utf8 returns for xim_str (Null for
\* a null pointer).
xim_encoding_to_utf8(enc, xim_str, conv) ==
  IF enc = "UTF8_STRING"
    THEN xim_str
    ELSE IF enc = "COMPOUND_TEXT"
           THEN IF conv # Null THEN conv ELSE <<>>
           ELSE <<>>

\* The conversion calls xim_encoding_to_utf8 makes.
decode_calls(enc, xim_str) ==
  IF enc # "UTF8_STRING" /\ enc = "COMPOUND_TEXT"
    THEN <<xcb_compound_text_to_utf8(xim_str)>>
    ELSE <<>>

(* ------------------------------------------------- Callback Registry, dispatch *)
\* Mutant of commit_string_callback: passes the window of the placement sent
\* last (pos_cur), not of the requested one.
commit_string_callback_sent_window(enc, input, conv) ==
  /\ LET text == xim_encoding_to_utf8(enc, input, conv)
         win == pos_cur.win
     IN out' = <<Decode(enc, input)>> \o decode_calls(enc, input) \o
               (IF callbacks.commit_string THEN <<Handler("commit_string", win, text)>> ELSE <<>>)
  /\ op' = <<"commit_string_callback", enc, input, conv>>
  /\ ret' = <<>>
  /\ Record
  /\ UNCHANGED <<client, engine>>

\* commit_string_callback: decodes the input, then calls the handler if one is set.
commit_string_callback(enc, input, conv) ==
  /\ LET text == xim_encoding_to_utf8(enc, input, conv)
         win == pos_req.win
     IN out' = <<Decode(enc, input)>> \o decode_calls(enc, input) \o
               (IF callbacks.commit_string THEN <<Handler("commit_string", win, text)>> ELSE <<>>)
  /\ op' = <<"commit_string_callback", enc, input, conv>>
  /\ ret' = <<>>
  /\ Record
  /\ UNCHANGED <<client, engine>>

\* forward_event_callback: rebuilds a key press or key release event and
\* calls the handler if one is set.
forward_event_callback(response_type) ==
  /\ LET pressed == (response_type % 128) = XCB_KEY_PRESS
         event == IF pressed THEN "KeyPress" ELSE "KeyRelease"
         win == pos_req.win
     IN out' = IF callbacks.forward_event THEN <<Handler("forward_event", win, event)>> ELSE <<>>
  /\ op' = <<"forward_event_callback", response_type>>
  /\ ret' = <<>>
  /\ Record
  /\ UNCHANGED <<client, engine>>

\* preedit_start_callback.
preedit_start_callback ==
  /\ LET win == pos_req.win
     IN out' = IF callbacks.preedit_start THEN <<Handler("preedit_start", win, <<>>)>> ELSE <<>>
  /\ op' = <<"preedit_start_callback">>
  /\ ret' = <<>>
  /\ Record
  /\ UNCHANGED <<client, engine>>

\* preedit_draw_callback: hands the handler a PreeditInfo over the frame.
\* PreeditInfo::text decodes the frame's text when the handler calls it
\* (reads_text).
preedit_draw_callback(enc, preedit_string, conv, reads_text) ==
  /\ LET win == pos_req.win
     IN out' = IF callbacks.preedit_draw
                 THEN <<Handler("preedit_draw", win, preedit_string)>> \o
                      (IF reads_text
                         THEN <<Decode(enc, preedit_string)>> \o
                              decode_calls(enc, preedit_string) \o
                              <<Handler("PreeditInfo::text", win,
                                        xim_encoding_to_utf8(enc, preedit_string, conv))>>
                         ELSE <<>>)
                 ELSE <<>>
  /\ op' = <<"preedit_draw_callback", enc, preedit_string, conv, reads_text>>
  /\ ret' = <<>>
  /\ Record
  /\ UNCHANGED <<client, engine>>

\* preedit_done_callback.
preedit_done_callback ==
  /\ LET win == pos_req.win
     IN out' = IF callbacks.preedit_done THEN <<Handler("preedit_done", win, <<>>)>> ELSE <<>>
  /\ op' = <<"preedit_done_callback">>
  /\ ret' = <<>>
  /\ Record
  /\ UNCHANGED <<client, engine>>

\* ImeClient::set_commit_string_cb and the four other setters: the slot holds
\* a handler afterwards.
set_cb(slot) ==
  /\ callbacks' = [callbacks EXCEPT ![slot] = TRUE]
  /\ op' = <<"set_cb", slot>>
  /\ ret' = <<>>
  /\ out' = <<>>
  /\ Record
  /\ UNCHANGED <<ic, input_style, pos_cur, pos_req, is_processing_pos_update,
                 pos_update_queued, engine>>

set_commit_string_cb == set_cb("commit_string")
set_forward_event_cb == set_cb("forward_event")
set_preedit_start_cb == set_cb("preedit_start")
set_preedit_draw_cb == set_cb("preedit_draw")
set_preedit_done_cb == set_cb("preedit_done")

(* ----------------------------------------------------------------- teardown *)
\* Mutant of drop: the connection is closed before the context is destroyed.
drop_close_first ==
  /\ alive
  /\ alive' = FALSE
  /\ out' = <<xcb_xim_close>> \o
            (IF ic # NoIc THEN <<xcb_xim_destroy_ic(ic)>> ELSE <<>>) \o
            <<xcb_xim_destroy>>
  /\ op' = <<"drop">>
  /\ ret' = <<>>
  /\ Record
  /\ UNCHANGED <<client, engine>>

\* impl Drop for ImeClient: the value is dropped once; afterwards there is no
\* client to call into.
drop ==
  /\ alive
  /\ alive' = FALSE
  /\ out' = (IF ic # NoIc THEN <<xcb_xim_destroy_ic(ic)>> ELSE <<>>) \o
            <<xcb_xim_close, xcb_xim_destroy>>
  /\ op' = <<"drop">>
  /\ ret' = <<>>
  /\ Record
  /\ UNCHANGED <<client, engine>>

(* ------------------------------------------------------- process-wide logger *)
\* Mutant of lock: the guard is handed out although another thread holds it.
lock_unguarded == locked' = TRUE

\* LOGGER.lock(): waits until no thread holds the guard, then takes it.
lock ==
  /\ ~locked
  /\ locked' = TRUE

\* The MutexGuard goes out of scope.
unlock == locked' = FALSE

\* ImeClient::set_logger(f) on thread t, f the next handler of Installs:
\* LOGGER.lock(), then Option::replace, a write of the new value over the old
\* one that is not atomic, then the guard is dropped.
set_logger_lock(t) ==
  /\ t = Installer
  /\ pc[t].at = "call"
  /\ pc[t].done < Len(Installs)
  /\ lock
  /\ pc' = [pc EXCEPT ![t].at = "locked"]
  /\ UNCHANGED <<LOGGER, delivered>>

set_logger_replace_begin(t) ==
  /\ t = Installer
  /\ pc[t].at = "locked"
  /\ LOGGER' = Torn
  /\ pc' = [pc EXCEPT ![t].at = "replacing"]
  /\ UNCHANGED <<locked, delivered>>

set_logger_replace_end(t) ==
  /\ t = Installer
  /\ pc[t].at = "replacing"
  /\ LOGGER' = Installs[pc[t].done + 1]
  /\ pc' = [pc EXCEPT ![t].at = "replaced"]
  /\ UNCHANGED <<locked, delivered>>

set_logger_unlock(t) ==
  /\ t = Installer
  /\ pc[t].at = "replaced"
  /\ unlock
  /\ pc' = [pc EXCEPT ![t] = [done |-> pc[t].done + 1, at |-> "call"]]
  /\ UNCHANGED <<LOGGER, delivered>>

\* rust_log(msg) on thread t: LOGGER.lock(), the handler found in LOGGER, if
\* any, is called with the line, then the guard is dropped.
rust_log_lock(t) ==
  /\ t \in Loggers
  /\ pc[t].at = "call"
  /\ pc[t].done < MaxLines
  /\ lock
  /\ pc' = [pc EXCEPT ![t].at = "locked"]
  /\ UNCHANGED <<LOGGER, delivered>>

rust_log_call(t) ==
  /\ t \in Loggers
  /\ pc[t].at = "locked"
  /\ delivered' = [delivered EXCEPT ![t][pc[t].done + 1] = LOGGER]
  /\ pc' = [pc EXCEPT ![t].at = "called"]
  /\ UNCHANGED <<LOGGER, locked>>

rust_log_unlock(t) ==
  /\ t \in Loggers
  /\ pc[t].at = "called"
  /\ unlock
  /\ pc' = [pc EXCEPT ![t] = [done |-> pc[t].done + 1, at |-> "call"]]
  /\ UNCHANGED <<LOGGER, delivered>>

(* ------------------------------------------------------------ specifications *)
\* The lifecycle, the placement coordinator and the event dispatcher, until
\* the client is dropped.
Next ==
  \/ /\ alive
     /\ \/ \E w \in Windows, s \in Spots : update_pos(w, s[1], s[2])
        \/ \E rt \in ResponseTypes, f \in BOOLEAN : process_event(rt, f)
        \/ open_callback
        \/ open_failed
        \/ \E c \in 1..MaxIc : create_ic_callback(c)
        \/ create_ic_failed
        \/ disconnected_callback
        \/ \E c \in 1..MaxIc : update_pos_callback(c)
     /\ UNCHANGED <<gen, alive, logging>>
  \/ /\ drop
     /\ UNCHANGED <<gen, logging>>

Spec == Init /\ [][Next]_vars

\* The lifecycle and the placement coordinator, with the update_pos calls
\* counted (gen) and every placement send the engine holds acknowledged in
\* the end.
NextLive ==
  \/ /\ \E w \in Windows, s \in Spots : update_pos(w, s[1], s[2])
     /\ gen' = 1 - gen
     /\ UNCHANGED <<alive, logging>>
  \/ /\ \/ open_callback
        \/ open_failed
        \/ \E c \in 1..MaxIc : create_ic_callback(c)
        \/ create_ic_failed
        \/ disconnected_callback
        \/ \E c \in 1..MaxIc : update_pos_callback(c)
     /\ UNCHANGED <<gen, alive, logging>>

Acknowledge ==
  (\E c \in 1..MaxIc : update_pos_callback(c)) /\ UNCHANGED <<gen, alive, logging>>

SpecLive == Init /\ [][NextLive]_vars /\ WF_vars(Acknowledge)

\* The callback registry and the dispatch of server notifications, over the
\* lifecycle and the placement coordinator; placements differ in their window
\* only, which is all a handler is passed.
NextDispatch ==
  /\ \/ \E w \in Windows : update_pos(w, 10, 20)
     \/ open_callback
     \/ \E c \in 1..MaxIc : create_ic_callback(c)
     \/ \E c \in 1..MaxIc : update_pos_callback(c)
     \/ \E e \in Encodings, t \in Texts, r \in ConvResults : commit_string_callback(e, t, r)
     \/ \E rt \in {XCB_KEY_PRESS, XCB_KEY_RELEASE} : forward_event_callback(rt)
     \/ preedit_start_callback
     \/ \E e \in Encodings, t \in Texts, r \in ConvResults, b \in BOOLEAN :
          preedit_draw_callback(e, t, r, b)
     \/ preedit_done_callback
     \/ set_commit_string_cb
     \/ set_forward_event_cb
     \/ set_preedit_start_cb
     \/ set_preedit_draw_cb
     \/ set_preedit_done_cb
  /\ UNCHANGED <<gen, alive, logging>>

SpecDispatch == Init /\ [][NextDispatch]_vars

\* The process-wide logger: one thread installs the handlers of Installs one
\* after the other while the engine's threads log lines.
NextLogger ==
  /\ \E t \in Threads :
       \/ set_logger_lock(t)
       \/ set_logger_replace_begin(t)
       \/ set_logger_replace_end(t)
       \/ set_logger_unlock(t)
       \/ rust_log_lock(t)
       \/ rust_log_call(t)
       \/ rust_log_unlock(t)
  /\ UNCHANGED <<client, engine, trace, history, gen, alive>>

SpecLogger == Init /\ [][NextLogger]_vars

(* ------------------------------------------------------------------ claims *)
PlacementOf(e) == ImePos(e.win, e.x, e.y)
IsKeyEvent(response_type) == response_type \in {2, 3, 130, 131}
HandlerSlots == {"commit_string", "forward_event", "preedit_start", "preedit_draw", "preedit_done"}
PreeditSlots == {"preedit_start", "preedit_draw", "preedit_done"}

\* C1 (coalescing): an update_pos call made with a context open and an update
\* in flight returns false and sends nothing; when the completion callback
\* arrives after N >= 1 such calls it issues exactly one send, which carries
\* the arguments of the last update_pos call, and the current placement is
\* those arguments afterwards.
C1_Coalescing ==
  [][ /\ (op'[1] = "update_pos" /\ ic # NoIc /\ acks # <<>>)
           => (ret' = <<FALSE>> /\ Sends(out') = <<>>)
      /\ (op'[1] = "update_pos_callback" /\ deferred >= 1)
           => /\ Len(Sends(out')) = 1
              /\ PlacementOf(Sends(out')[1]) = last_args
              /\ pos_cur' = last_args
              /\ Len(acks') = 1 ]_vars

\* C1 witness: a completion callback has just issued the one send that stands
\* for two deferred calls, with the last call's arguments.
C1_Witness ==
  /\ op[1] = "update_pos_callback"
  /\ coalesced >= 2
  /\ Len(Sends(out)) = 1
  /\ PlacementOf(Sends(out)[1]) = last_args
  /\ pos_cur = last_args

\* C2 (at most one in flight): no context ever has more than one placement
\* send that the completion callback has not acknowledged.
C2_AtMostOneInFlight ==
  \A c \in 1..MaxIc : Cardinality({i \in DOMAIN acks : acks[i] = c}) <= 1

\* C2 witness: one send is unacknowledged and a newer request is pending.
C2_Witness ==
  /\ Len(acks) = 1
  /\ ic = acks[1]
  /\ pos_update_queued
  /\ op[1] = "update_pos"
  /\ ret = <<FALSE>>

\* C4 (lazy open without duplicates), as claimed: no step calls xcb_xim_open
\* while an open or a context creation is outstanding, or while a context is
\* open.
C4_NoSecondOpen ==
  [][ (ic # NoIc \/ opens > 0 \/ creates > 0) => Calls(out', "xcb_xim_open") = <<>> ]_vars

\* C5 (filter consumed), as claimed: a process_event call whose event the
\* filter consumed returns true and calls nothing.
C5_FilteredIsHandled ==
  (op[1] = "process_event" /\ op[3]) => (ret = <<TRUE>> /\ out = <<>>)

\* C6 (decision table): for an event the filter did not consume, a key event
\* with a context is forwarded once to that context and the call returns
\* true; a key event without a context calls xcb_xim_open only and returns
\* false; any other event returns false and calls nothing.  No other step
\* forwards an event, so a keystroke that was not forwarded never is.
C6_DecisionTable ==
  [][ IF op'[1] = "process_event" /\ ~op'[3]
        THEN IF IsKeyEvent(op'[2])
               THEN IF ic # NoIc
                      THEN out' = <<xcb_xim_forward_event(ic, op'[2])>> /\ ret' = <<TRUE>>
                      ELSE out' = <<xcb_xim_open>> /\ ret' = <<FALSE>>
               ELSE out' = <<>> /\ ret' = <<FALSE>>
        ELSE Calls(out', "xcb_xim_forward_event") = <<>> ]_vars

\* C6 witness: a key press with the sent-event bit set was forwarded to the
\* open context and reported handled.
C6_Witness ==
  /\ op = <<"process_event", 130, FALSE>>
  /\ ic # NoIc
  /\ out = <<xcb_xim_forward_event(ic, 130)>>
  /\ ret = <<TRUE>>

\* C7 (update_pos result): update_pos returns true exactly when it issued a
\* placement send, which is exactly when a context exists and no update is in
\* flight; without a context it calls xcb_xim_open, with an update in flight
\* it marks a request pending; in every case pos_req becomes the arguments.
C7_UpdatePosResult ==
  [][ op'[1] = "update_pos" =>
        /\ ret' \in {<<TRUE>>, <<FALSE>>}
        /\ (ret' = <<TRUE>>) <=> (Len(Sends(out')) = 1)
        /\ (ret' = <<TRUE>>) <=> (ic # NoIc /\ acks = <<>>)
        /\ (ret' = <<TRUE>>) => PlacementOf(Sends(out')[1]) = ImePos(op'[2], op'[3], op'[4])
        /\ (ret' = <<FALSE>>) => Sends(out') = <<>>
        /\ (ic = NoIc) => (out' = <<xcb_xim_open>> /\ pos_update_queued' = pos_update_queued)
        /\ (ic # NoIc /\ acks # <<>>) => (pos_update_queued' /\ out' = <<>>)
        /\ pos_req' = ImePos(op'[2], op'[3], op'[4]) ]_vars

\* C7 witness: a second request was deferred behind an update in flight and
\* replaced the one queued before it.
C7_Witness ==
  /\ op[1] = "update_pos"
  /\ ret = <<FALSE>>
  /\ ic # NoIc
  /\ deferred >= 2
  /\ pos_update_queued
  /\ pos_req = ImePos(op[2], op[3], op[4])
  /\ pos_req # pos_cur

\* C8 (window-change detection): every placement send carries the window
\* attributes exactly when its window differs from the window of the send
\* before it, the context-creation request counting as a send.
C8_WindowChange ==
  [][ \A i \in DOMAIN Sends(out') :
        /\ last_sent # NoPlacement
        /\ Sends(out')[i].wattr <=> (Sends(out')[i].win # last_sent.win) ]_vars

\* C8 witness: the completion callback issued a send for another window than
\* the send before it, with the window attributes.
C8_Witness ==
  /\ op[1] = "update_pos_callback"
  /\ Len(Sends(out)) = 1
  /\ Sends(out)[1].wattr
  /\ Sends(out)[1].win = pos_req.win

\* C3 (eventual delivery): when every send is acknowledged in the end, an
\* update_pos call made with a context open leads to a state where the
\* context is gone, or a later update_pos call was made, or nothing is in
\* flight or pending and the last send carried the call's arguments.
C3_EventualDelivery ==
  \A w \in Windows, s \in Spots, g \in {0, 1} :
    (op = <<"update_pos", w, s[1], s[2]>> /\ gen = g /\ ic # NoIc)
      ~> \/ ic = NoIc
         \/ gen # g
         \/ /\ ~is_processing_pos_update
            /\ ~pos_update_queued
            /\ acks = <<>>
            /\ last_sent = ImePos(w, s[1], s[2])

\* C3 witness: a deferred request was sent by the completion callback and
\* acknowledged; nothing is in flight or pending and the last send carried
\* the last requested placement.
C3_Witness ==
  /\ op[1] = "update_pos_callback"
  /\ ic # NoIc
  /\ coalesced >= 1
  /\ ~is_processing_pos_update
  /\ ~pos_update_queued
  /\ acks = <<>>
  /\ last_sent = last_args

\* C9 (callback gating), as claimed: with InputStyle DEFAULT no step calls a
\* pre-edit handler.
C9_NoPreeditUnderDefault ==
  input_style = DEFAULT => \A i \in DOMAIN out : out[i].call \notin PreeditSlots

\* C10 (handler window): every handler a notification is dispatched to is
\* passed the window of the most recent update_pos call.
C10_HandlerWindow ==
  \A i \in DOMAIN out : out[i].call \in HandlerSlots => out[i].win = last_args.win

\* C10 witness: the commit-string handler was passed the window of a request
\* that is still queued behind an update in flight for another window.
C10_Witness ==
  /\ pos_update_queued
  /\ pos_cur.win # last_args.win
  /\ last_sent.win # last_args.win
  /\ \E i \in DOMAIN out : out[i].call = "commit_string" /\ out[i].win = last_args.win

\* C11 (deferred placement on open), as claimed: once a context has been
\* created and no update is in flight, the last placement the server was sent
\* is the one requested by the most recent update_pos call.
C11_LatestPlacementOnCreate ==
  (op[1] = "create_ic_callback" /\ ~is_processing_pos_update /\ acks = <<>>)
    => last_sent = last_args

\* C12 (disconnect frame): a disconnect notification clears the context and
\* leaves the requested placement, the current placement, the in-flight flag,
\* the pending flag, the input style and the installed handlers as they were.
C12_DisconnectFrame ==
  [][ op'[1] = "disconnected_callback" =>
        /\ ic' = NoIc
        /\ UNCHANGED <<pos_req, pos_cur, is_processing_pos_update, pos_update_queued,
                       input_style, callbacks>> ]_vars

\* C12 witness: the server disconnected with an update in flight and a newer
\* request pending; the context is gone, both flags are still set and the
\* two placements still differ.
C12_Witness ==
  /\ op[1] = "disconnected_callback"
  /\ ic = NoIc
  /\ is_processing_pos_update
  /\ pos_update_queued
  /\ pos_req # pos_cur
  /\ acks # <<>>

\* C13 (lazy retry): only process_event and update_pos call xcb_xim_open; an
\* update_pos call, or a process_event call on a key event the filter did not
\* consume, made without a context calls it once.
C13_LazyRetry ==
  [][ /\ Calls(out', "xcb_xim_open") # <<>> => op'[1] \in {"process_event", "update_pos"}
      /\ (ic = NoIc /\ (\/ op'[1] = "update_pos"
                         \/ (op'[1] = "process_event" /\ ~op'[3] /\ IsKeyEvent(op'[2]))))
           => Len(Calls(out', "xcb_xim_open")) = 1 ]_vars

\* C13 witness: a context was created and lost again, no request is
\* outstanding, and a key press has just called xcb_xim_open.
C13_Witness ==
  /\ next_ic > 1
  /\ ic = NoIc
  /\ creates = 0
  /\ op[1] = "process_event"
  /\ out = <<xcb_xim_open>>
  /\ ret = <<FALSE>>

\* C14 (persistent unavailability): as long as no context was ever created,
\* process_event on a key event and update_pos return false, no placement
\* send and no event forward is issued, and a step returns nothing or a bool.
C14_Unavailable ==
  next_ic = 1 =>
    /\ (op[1] = "process_event" /\ IsKeyEvent(op[2])) => ret = <<FALSE>>
    /\ op[1] = "update_pos" => ret = <<FALSE>>
    /\ Sends(out) = <<>>
    /\ Calls(out, "xcb_xim_forward_event") = <<>>
    /\ ret \in {<<>>, <<TRUE>>, <<FALSE>>}

\* C14 witness: a context creation was requested and given up, no context was
\* ever created, and a key press is reported unhandled.
C14_Witness ==
  /\ next_ic = 1
  /\ last_sent # NoPlacement
  /\ creates = 0
  /\ op[1] = "process_event"
  /\ IsKeyEvent(op[2])
  /\ ~op[3]
  /\ ret = <<FALSE>>

\* C18 (current placement): pos_cur changes only in a step that issues a
\* placement send or a context-creation request, and every such step leaves
\* it equal to pos_req; a deferred update_pos call, a completion callback
\* without a pending request, context-creation completion, disconnect and
\* process_event leave it unchanged.
C18_CurrentPlacement ==
  [][ /\ pos_cur' # pos_cur => Placed(out') # <<>>
      /\ Placed(out') # <<>> => (pos_cur' = pos_req' /\ PlacementOf(Placed(out')[1]) = pos_cur')
      /\ (op'[1] = "update_pos" /\ ret' = <<FALSE>>) => pos_cur' = pos_cur
      /\ (op'[1] = "update_pos_callback" /\ ~pos_update_queued) => pos_cur' = pos_cur
      /\ op'[1] \in {"create_ic_callback", "disconnected_callback", "process_event"}
           => pos_cur' = pos_cur ]_vars

\* C18 witness: the context-creation request was issued for a requested
\* placement and the current placement is that placement.
C18_Witness ==
  /\ op = <<"open_callback">>
  /\ Calls(out, "xcb_xim_create_ic") # <<>>
  /\ pos_cur = pos_req
  /\ pos_cur.win \in Windows

\* C16 (decoding failures): a commit-string handler, and a pre-edit handler
\* that reads the text, are called exactly once by their notification
\* whatever the conversion returned; the text is empty when Compound Text was
\* negotiated and the conversion returned null, and is the input bytes when
\* UTF-8 was negotiated.
C16_DecodingNeverFails ==
  /\ (op[1] = "commit_string_callback" /\ callbacks.commit_string) =>
        /\ Len(Calls(out, "commit_string")) = 1
        /\ (op[2] = "COMPOUND_TEXT" /\ op[4] = Null)
             => Calls(out, "commit_string")[1].data = <<>>
        /\ op[2] = "UTF8_STRING" => Calls(out, "commit_string")[1].data = op[3]
  /\ (op[1] = "preedit_draw_callback" /\ callbacks.preedit_draw /\ op[5]) =>
        /\ Len(Calls(out, "PreeditInfo::text")) = 1
        /\ (op[2] = "COMPOUND_TEXT" /\ op[4] = Null)
             => Calls(out, "PreeditInfo::text")[1].data = <<>>
        /\ op[2] = "UTF8_STRING" => Calls(out, "PreeditInfo::text")[1].data = op[3]

\* C16 witness: Compound Text was negotiated, the conversion returned null,
\* and the commit-string handler was called with the empty text.
C16_Witness ==
  /\ op[1] = "commit_string_callback"
  /\ op[2] = "COMPOUND_TEXT"
  /\ op[4] = Null
  /\ Calls(out, "xcb_compound_text_to_utf8") # <<>>
  /\ Calls(out, "commit_string") # <<>>
  /\ Calls(out, "commit_string")[1].data = <<>>

\* C19 (lazy decoding), as claimed: a notification decodes text only when the
\* commit-string handler, or the pre-edit text accessor, is called.
C19_LazyDecoding ==
  /\ (op[1] = "commit_string_callback" /\ Calls(out, "commit_string") = <<>>)
       => Calls(out, "xim_encoding_to_utf8") = <<>>
  /\ (op[1] = "preedit_draw_callback" /\ Calls(out, "PreeditInfo::text") = <<>>)
       => Calls(out, "xim_encoding_to_utf8") = <<>>

\* C15 (teardown order): the client is dropped at most once; the drop
\* destroys the context first when one exists, then closes the connection,
\* then destroys the handle, and issues no context-destroy request when no
\* context exists; no step into the client is taken after the drop.
C15_TeardownOrder ==
  [][ /\ alive
      /\ op'[1] = "drop" =>
           /\ ~alive'
           /\ out' = IF ic # NoIc
                       THEN <<xcb_xim_destroy_ic(ic), xcb_xim_close, xcb_xim_destroy>>
                       ELSE <<xcb_xim_close, xcb_xim_destroy>>
      /\ op'[1] # "drop" =>
           /\ alive'
           /\ \A i \in DOMAIN out' :
                out'[i].call \notin {"xcb_xim_destroy_ic", "xcb_xim_close", "xcb_xim_destroy"} ]_vars

\* C15 witness: a client with an open context was dropped: the context was
\* destroyed, then the connection closed, then the handle destroyed.
C15_Witness ==
  /\ ~alive
  /\ op = <<"drop">>
  /\ ic # NoIc
  /\ out = <<xcb_xim_destroy_ic(ic), xcb_xim_close, xcb_xim_destroy>>

\* C20 (recovery after a disconnect during an update), as claimed: when every
\* send is acknowledged in the end, an update_pos call made with a new context
\* open, after a disconnect cleared the context of a send that is still
\* unacknowledged, leads
\* to a state where the context is gone, or a later update_pos call was
\* made, or nothing is in flight or pending and the last send carried the
\* call's arguments to the context that is open.
C20_Recovery ==
  \A w \in Windows, s \in Spots, g \in {0, 1} :
    (/\ op = <<"update_pos", w, s[1], s[2]>>
     /\ gen = g
     /\ ic # NoIc
     /\ orphaned
     /\ Head(acks) # ic)
      ~> \/ ic = NoIc
         \/ gen # g
         \/ /\ ~is_processing_pos_update
            /\ ~pos_update_queued
            /\ acks = <<>>
            /\ last_sent = ImePos(w, s[1], s[2])
            /\ last_ic = ic

InCritical == {t \in Threads : pc[t].at # "call"}

\* C17 (process-wide logger): at most one thread is between lock and unlock;
\* a line is handed to a handler at most once, and only to the handler that
\* the last finished set_logger call installed, never to one that is being
\* written or was replaced: after set_logger(f) and set_logger(g) it is g.
C17_Logger ==
  [][ /\ Cardinality(InCritical') <= 1
      /\ \A t \in Loggers, k \in 1..MaxLines :
           delivered'[t][k] # delivered[t][k] =>
             /\ delivered[t][k] = NoLogger
             /\ pc[Installer].at = "call"
             /\ pc[Installer].done >= 1
             /\ delivered'[t][k] = Installs[pc[Installer].done] ]_vars

\* C17 witness: both handlers were installed in turn; one thread logged a
\* line before any handler was installed, the other had a line delivered to
\* f and a later one to g.
C17_Witness ==
  /\ pc[Installer].done = 2
  /\ \E t, u \in Loggers :
       /\ pc[t].done >= 1
       /\ delivered[t][1] = NoLogger
       /\ delivered[u][1] = "f"
       /\ delivered[u][2] = "g"

\* C21 (sends target the stored context), as claimed: every placement send
\* is issued while the client stores a context, and to that context.
C21_SendsTargetStoredContext ==
  [][ \A i \in DOMAIN Sends(out') : ic # NoIc /\ Sends(out')[i].ic = ic ]_vars

\* C22 (no context is overwritten), as claimed: a context-creation completion
\* stores its handle only when the client holds none, and a context-creation
\* request is issued only when none is outstanding and no context is open.
C22_NoContextOverwritten ==
  [][ /\ op'[1] = "create_ic_callback" => ic = NoIc
      /\ Calls(out', "xcb_xim_create_ic") # <<>> => (creates = 0 /\ ic = NoIc) ]_vars

\* C23 (flag consistency): whenever a request is marked pending an update is
\* marked in flight, and the in-flight flag is cleared only by a completion
\* callback that finds no request pending.
C23_FlagConsistency ==
  /\ [](pos_update_queued => is_processing_pos_update)
  /\ [][ (is_processing_pos_update /\ ~is_processing_pos_update')
           => (op'[1] = "update_pos_callback" /\ ~pos_update_queued) ]_vars

\* C23 witness: a completion callback found no request pending, sent nothing
\* and cleared the in-flight flag, after an earlier completion had sent a
\* pending request.
C23_Witness ==
  /\ op[1] = "update_pos_callback"
  /\ out = <<>>
  /\ ~is_processing_pos_update
  /\ ~pos_update_queued
  /\ coalesced >= 1
  /\ ic # NoIc

====
